---- MODULE Spec2Model ----
(***************************************************************************)
(* A model of the cooper actor: Actor<S> (src/src/actor.rs, the            *)
(* cooperative-task backend) and ThreadedActor<T> (src/src/                *)
(* threaded_actor.rs, the OS-thread backend).                              *)
(*                                                                         *)
(* One actor instance is modelled.  Its state S is instantiated with a     *)
(* counter (examples/unique_id.rs) and a list of inserted values (the      *)
(* insert of examples/shared_keyval.rs, kept in insertion order).  The     *)
(* callers are tasks/threads that each own at most one handle; a handle is *)
(* the producer end (tx) of the mailbox channel.                           *)
(***************************************************************************)
EXTENDS Integers, Sequences, FiniteSets, TLC

\* ------------------------------------------------------------------ bounds

\* Number of caller tasks/threads that may hold a handle.
MaxClients == 2

\* Total number of uses of the handle API in one run that take effect: the
\* envelopes accepted from cast, call and flush, and the clones.
MaxOps == 4

Clients == 1..MaxClients

Backends == {"coop", "thread"}

CastOps == {"append", "panic"}

CallOps == {"incr", "read", "flush", "panic"}

\* Bodies that captured a clone of the handle of their own actor and use it:
\* actor.call(..) or actor.flush() awaited / blocked on, or actor.cast(..).
SelfOps == {"self_call", "self_flush", "self_cast"}

\* Call bodies that use the reply sender they are handed, or do not reply:
\* send_none sends on the sender and returns None, send_some sends on the
\* sender and returns Some as well, none returns None without sending.
ReplyOps == {"send_none", "send_some", "none"}

\* channel::bounded(1): the capacity of the reply channel of Actor::call.
\* ThreadedActor::call creates its reply channel with channel::unbounded().
ReplyCap == 1

\* ------------------------------------------------------------------- state

VARIABLES
    backend,    \* which implementation: "coop" = Actor, "thread" = ThreadedActor
    state,      \* the actor's private state S: [n: counter, log: list]; once
                \* the processor is gone S is dropped and this is its last value
    mailbox,    \* the channel's queue: ids of the envelopes, head first
    ppc,        \* processor position: created, recv, await, terminated
    cause,      \* why the processor left its loop: none, closed, panic
    running,    \* the envelope bodies being executed: [id, pc, tmp]
    issued,     \* envelope k accepted into the mailbox: [api, op, caller, arg]
    executed,   \* ids in the order the processor dequeued them
    done,       \* ids whose body ran to completion
    reply,      \* per call id: the values buffered in its reply channel
    ret,        \* per call id: the value its caller received
    status,     \* per client: none, ready, waiting, dropped, panicked
    waitOn,     \* per client: id of the outstanding call, 0 if none or rejected
    last,       \* per client: how its last cast/call/flush ended: ok, lost (cast
                \* returned () with its envelope rejected), cast_panic, call_panic
    pendingAtClose, \* the ids queued when the last handle went away
    abandoned   \* the call ids whose caller stopped waiting (dropped its future)

vars == <<backend, state, mailbox, ppc, cause, running, issued, executed,
          done, reply, ret, status, waitOn, last, pendingAtClose, abandoned>>

procVars == <<state, ppc, cause, running, executed, done, reply>>

\* ---------------------------------------------------------------- helpers

Range(s) == {s[i] : i \in 1..Len(s)}

\* The clients that hold a producer end (tx) of the mailbox.
Handles == {c \in Clients : status[c] \in {"ready", "waiting"}}

HandlesOf(st) == {c \in Clients : st[c] \in {"ready", "waiting"}}

\* The uses of the handle API so far that count against MaxOps.
Used == Len(issued) + Cardinality({c \in Clients : status[c] # "none"}) - 1

\* The receiver of the mailbox exists as long as the processor does.
Alive == ppc # "terminated"

\* The k-th value a client appends: appends of one client are numbered 1, 2, ...
NextArg(c) ==
    1 + Cardinality({k \in 1..Len(issued) :
                        issued[k].caller = c /\ issued[k].op = "append"})

\* The reply sender of call `id` lives in its envelope: it exists while the
\* envelope is queued or its body is being executed.
SenderAlive(id) == id \in Range(mailbox) \/ \E a \in running : a.id = id

\* ------------------------------------------------------------------- Init

\* Actor::new / ThreadedActor::new: an unbounded channel, the processor
\* spawned with the initial state, and one handle {tx} returned to client 1.
Init ==
    /\ backend \in Backends
    /\ state = [n |-> 0, log |-> <<>>]
    /\ mailbox = <<>>
    /\ ppc = "created"
    /\ cause = "none"
    /\ running = {}
    /\ issued = <<>>
    /\ executed = <<>>
    /\ done = {}
    /\ reply = <<>>
    /\ ret = <<>>
    /\ status = [c \in Clients |-> IF c = 1 THEN "ready" ELSE "none"]
    /\ waitOn = [c \in Clients |-> 0]
    /\ last = [c \in Clients |-> "ok"]
    /\ pendingAtClose = {}
    /\ abandoned = {}

\* --------------------------------------------------------- handle lifetime

\* The step to status st drops the last producer end: the channel closes.
Closes(st) == Handles # {} /\ HandlesOf(st) = {}

\* What a change of the clients' status does to the channel.  While the
\* processor holds the receiver a closed channel keeps its queue; once both
\* ends are gone the channel and the envelopes left in it are freed.
Release(st) ==
    /\ pendingAtClose' = IF Closes(st) THEN Range(mailbox) ELSE pendingAtClose
    /\ mailbox' = IF Closes(st) /\ ~Alive THEN <<>> ELSE mailbox

\* Mutant of Clone: the clone comes with a state of its own, as new does.
CloneFresh(c, d) ==
    /\ status[c] = "ready"
    /\ status[d] = "none"
    /\ Used < MaxOps
    /\ \A e \in Clients : e < d => status[e] # "none"
    /\ status' = [status EXCEPT ![d] = "ready"]
    /\ state' = [n |-> 0, log |-> <<>>]
    /\ UNCHANGED <<backend, abandoned, mailbox, issued, ret, waitOn, last, pendingAtClose>>
    /\ UNCHANGED <<ppc, cause, running, executed, done, reply>>

\* #[derive(Clone)]: another producer end of the same channel, handed to a new
\* caller (callers are interchangeable: the next unused one is taken).
Clone(c, d) ==
    /\ status[c] = "ready"
    /\ status[d] = "none"
    /\ Used < MaxOps
    /\ \A e \in Clients : e < d => status[e] # "none"
    /\ status' = [status EXCEPT ![d] = "ready"]
    /\ UNCHANGED <<backend, abandoned, mailbox, issued, ret, waitOn, last, pendingAtClose>>
    /\ UNCHANGED procVars

\* Mutant of Drop: dropping a handle cancels the envelopes it has queued.
DropCancels(c) ==
    /\ status[c] = "ready"
    /\ status' = [status EXCEPT ![c] = "dropped"]
    /\ pendingAtClose' = IF Closes(status') THEN Range(mailbox) ELSE pendingAtClose
    /\ mailbox' = SelectSeq(mailbox, LAMBDA id : issued[id].caller # c)
    /\ UNCHANGED <<backend, abandoned, issued, ret, waitOn, last>>
    /\ UNCHANGED procVars

\* The handle goes out of scope: its Sender is dropped.
Drop(c) ==
    /\ status[c] = "ready"
    /\ status' = [status EXCEPT ![c] = "dropped"]
    /\ Release(status')
    /\ UNCHANGED <<backend, abandoned, issued, ret, waitOn, last>>
    /\ UNCHANGED procVars

\* The caller unwinds from a panic; the handle it owns is dropped on the way.
Panics(c, api) ==
    /\ status' = [status EXCEPT ![c] = "panicked"]
    /\ waitOn' = [waitOn EXCEPT ![c] = 0]
    /\ last' = [last EXCEPT ![c] = IF api = "cast" THEN "cast_panic" ELSE "call_panic"]
    /\ Release(status')

\* ------------------------------------------------------------------ cast

\* Mutant of Enqueue: the envelope is pushed at the head of the queue.
EnqueueFront(c, api, op) ==
    /\ issued' = Append(issued, [api |-> api, op |-> op, caller |-> c,
                                 arg |-> IF op = "append" THEN NextArg(c) ELSE 0])
    /\ mailbox' = <<Len(issued) + 1>> \o mailbox
    /\ reply' = Append(reply, <<>>)

\* Mutant of Enqueue: the channel is bounded(1), a send waits for room.
EnqueueBounded(c, api, op) ==
    /\ Len(mailbox) < 1
    /\ issued' = Append(issued, [api |-> api, op |-> op, caller |-> c,
                                 arg |-> IF op = "append" THEN NextArg(c) ELSE 0])
    /\ mailbox' = Append(mailbox, Len(issued) + 1)
    /\ reply' = Append(reply, <<>>)

\* tx.try_send(msg) / tx.send(Box::new(f)) on the unbounded channel with the
\* receiver still there: the envelope goes to the tail of the queue.
Enqueue(c, api, op) ==
    /\ issued' = Append(issued, [api |-> api, op |-> op, caller |-> c,
                                 arg |-> IF op = "append" THEN NextArg(c) ELSE 0])
    /\ mailbox' = Append(mailbox, Len(issued) + 1)
    /\ reply' = Append(reply, <<>>)

\* Actor::cast: `let _ = self.tx.try_send(msg);` returns () whatever happened.
\* ThreadedActor::cast: `self.tx.send(Box::new(f)).unwrap();` panics when the
\* receiver is gone.
Cast(c, op) ==
    /\ status[c] = "ready"
    /\ Used < MaxOps
    /\ IF Alive
       THEN /\ Enqueue(c, "cast", op)
            /\ last' = [last EXCEPT ![c] = "ok"]
            /\ UNCHANGED <<status, waitOn, pendingAtClose>>
       ELSE IF backend = "coop"
       THEN /\ last' = [last EXCEPT ![c] = "lost"]
            /\ UNCHANGED <<status, waitOn, pendingAtClose, issued, mailbox, reply>>
       ELSE /\ Panics(c, "cast")
            /\ UNCHANGED <<issued, reply>>
    /\ UNCHANGED <<backend, abandoned, state, ppc, cause, running, executed, done, ret>>

\* ------------------------------------------------------------------ call

\* The first half of call: the reply channel is created, the wrapper that owns
\* its sender is enqueued, and the caller starts waiting on rx.recv().
\* Actor::call ignores a failed send (`let _ = self.tx.send(msg).await;`): the
\* rejected message and the sender in it are dropped, rx.recv() yields Err and
\* expect("Actor is gone") panics.  ThreadedActor::call panics in
\* send(..).unwrap().
CallSend(c, api, op) ==
    /\ status[c] = "ready"
    /\ Used < MaxOps
    /\ IF Alive
       THEN /\ Enqueue(c, api, op)
            /\ status' = [status EXCEPT ![c] = "waiting"]
            /\ waitOn' = [waitOn EXCEPT ![c] = Len(issued) + 1]
            /\ last' = [last EXCEPT ![c] = "ok"]
            /\ UNCHANGED pendingAtClose
       ELSE /\ Panics(c, "call")
            /\ UNCHANGED <<issued, reply>>
    /\ UNCHANGED <<backend, abandoned, state, ppc, cause, running, executed, done, ret>>

Call(c, op) == CallSend(c, "call", op)

\* flush is `self.call(|_, _| Some(()))`.
Flush(c) == CallSend(c, "flush", "flush")

\* The second half of call: rx.recv() returns the buffered value, or Err when
\* the channel is empty and every sender is gone, which expect/unwrap turn
\* into a panic of the caller; otherwise the caller stays blocked.
CallRecv(c) ==
    /\ status[c] = "waiting"
    /\ LET id == waitOn[c] IN
       IF reply[id] # <<>>
       THEN /\ ret' = (id :> Head(reply[id])) @@ ret
            /\ reply' = [reply EXCEPT ![id] = Tail(@)]
            /\ status' = [status EXCEPT ![c] = "ready"]
            /\ waitOn' = [waitOn EXCEPT ![c] = 0]
            /\ last' = [last EXCEPT ![c] = "ok"]
            /\ UNCHANGED <<mailbox, pendingAtClose>>
       ELSE /\ ~SenderAlive(id)
            /\ Panics(c, "call")
            /\ UNCHANGED <<ret, reply>>
    /\ UNCHANGED <<backend, abandoned, state, ppc, cause, running, issued, executed, done>>

\* Mutant of Abandon: the blocking call of the OS-thread backend can give up
\* waiting as well.
AbandonAnyBackend(c) ==
    /\ status[c] = "waiting"
    /\ abandoned' = abandoned \cup {waitOn[c]}
    /\ status' = [status EXCEPT ![c] = "ready"]
    /\ waitOn' = [waitOn EXCEPT ![c] = 0]
    /\ UNCHANGED <<backend, mailbox, issued, ret, last, pendingAtClose>>
    /\ UNCHANGED procVars

\* Mutant of Abandon: dropping the future takes the envelope out of the queue.
AbandonCancels(c) ==
    /\ backend = "coop"
    /\ status[c] = "waiting"
    /\ abandoned' = abandoned \cup {waitOn[c]}
    /\ status' = [status EXCEPT ![c] = "ready"]
    /\ waitOn' = [waitOn EXCEPT ![c] = 0]
    /\ mailbox' = SelectSeq(mailbox, LAMBDA id : id # waitOn[c])
    /\ UNCHANGED <<backend, issued, ret, last, pendingAtClose>>
    /\ UNCHANGED procVars

\* The future returned by Actor::call is dropped while it waits in
\* rx.recv().await (a timeout, a select): rx is dropped with it, the envelope
\* stays queued and the caller goes on with its handle.  ThreadedActor::call
\* blocks its thread in rx.recv() and cannot be given up.
Abandon(c) ==
    /\ backend = "coop"
    /\ status[c] = "waiting"
    /\ abandoned' = abandoned \cup {waitOn[c]}
    /\ status' = [status EXCEPT ![c] = "ready"]
    /\ waitOn' = [waitOn EXCEPT ![c] = 0]
    /\ UNCHANGED <<backend, mailbox, issued, ret, last, pendingAtClose>>
    /\ UNCHANGED procVars

\* ------------------------------------------------------------- processor

\* The spawned task / thread is scheduled for the first time and enters the
\* loop of run / thr_func.
Start ==
    /\ ppc = "created"
    /\ ppc' = "recv"
    /\ UNCHANGED <<backend, abandoned, state, mailbox, cause, running, issued, executed,
                   done, reply, ret, status, waitOn, last, pendingAtClose>>

\* Mutant of Dequeue: the body is spawned instead of awaited, the loop goes
\* straight back to recv.
DequeueNoAwait ==
    /\ ppc = "recv"
    /\ mailbox # <<>>
    /\ mailbox' = Tail(mailbox)
    /\ executed' = Append(executed, Head(mailbox))
    /\ running' = running \cup {[id |-> Head(mailbox), pc |-> "start", tmp |-> 0]}
    /\ ppc' = "recv"
    /\ UNCHANGED <<backend, abandoned, state, cause, issued, done, reply, ret, status,
                   waitOn, last, pendingAtClose>>

\* Mutant of Dequeue: recv yields the newest envelope instead of the oldest.
DequeueNewest ==
    /\ ppc = "recv"
    /\ mailbox # <<>>
    /\ mailbox' = SubSeq(mailbox, 1, Len(mailbox) - 1)
    /\ executed' = Append(executed, mailbox[Len(mailbox)])
    /\ running' = running \cup {[id |-> mailbox[Len(mailbox)], pc |-> "start", tmp |-> 0]}
    /\ ppc' = "await"
    /\ UNCHANGED <<backend, abandoned, state, cause, issued, done, reply, ret, status,
                   waitOn, last, pendingAtClose>>

\* `while let Ok(msg) = rx.recv().await` / `for f in rx`: recv yields the head
\* of the queue and the loop body starts executing it; the loop is back at
\* recv only when that body has returned.
Dequeue ==
    /\ ppc = "recv"
    /\ mailbox # <<>>
    /\ mailbox' = Tail(mailbox)
    /\ executed' = Append(executed, Head(mailbox))
    /\ running' = running \cup {[id |-> Head(mailbox), pc |-> "start", tmp |-> 0]}
    /\ ppc' = "await"
    /\ UNCHANGED <<backend, abandoned, state, cause, issued, done, reply, ret, status,
                   waitOn, last, pendingAtClose>>

\* Mutant of Exit: the loop ends as soon as every Sender is gone and the
\* envelopes still queued are dropped with the receiver.
ExitOnClose ==
    /\ ppc = "recv"
    /\ Handles = {}
    /\ ppc' = "terminated"
    /\ cause' = "closed"
    /\ mailbox' = <<>>
    /\ UNCHANGED <<backend, abandoned, state, running, issued, executed, done,
                   reply, ret, status, waitOn, last, pendingAtClose>>

\* Mutant of Exit: on the closed, empty channel the loop keeps waiting.
ExitKeepsWaiting ==
    /\ ppc = "recv"
    /\ mailbox = <<>>
    /\ Handles = {}
    /\ UNCHANGED vars

\* recv yields Err on a queue that is empty and closed (every Sender dropped):
\* the loop ends, the task / thread returns and the state is dropped.
Exit ==
    /\ ppc = "recv"
    /\ mailbox = <<>>
    /\ Handles = {}
    /\ ppc' = "terminated"
    /\ cause' = "closed"
    /\ UNCHANGED <<backend, abandoned, state, mailbox, running, issued, executed, done,
                   reply, ret, status, waitOn, last, pendingAtClose>>

\* The caller's end of the reply channel of call `id` is still open: the
\* caller, a client or a body in execution, is waiting in rx.recv().
ReceiverOpen(id) ==
    \/ \E c \in Clients : status[c] = "waiting" /\ waitOn[c] = id
    \/ \E a \in running : a.pc = "waiting" /\ a.tmp = id

\* A panic unwinds out of the loop: the bodies, the state and the receiver are
\* dropped.  No catch_unwind stands between the body and the loop.  Whether
\* the envelopes still queued are dropped with the receiver or stay in the
\* channel until the last Sender goes is the channel implementation's choice.
Kill ==
    /\ ppc' = "terminated"
    /\ cause' = "panic"
    /\ running' = {}
    /\ mailbox' \in (IF Handles = {} THEN {<<>>} ELSE {<<>>, mailbox})
    /\ UNCHANGED <<state, done, reply>>

\* The wrapper's tx.send(res).await of Actor::call has to wait: the receiver
\* is open and the bounded(1) channel is full.
SendWaits(a, res) ==
    /\ backend = "coop"
    /\ res # <<>>
    /\ ReceiverOpen(a.id)
    /\ Len(reply[a.id]) >= ReplyCap

\* Mutant of Finish: the wrapper never sends the value the body returned.
FinishDropsReply(a, res) ==
    /\ running' = running \ {a}
    /\ done' = done \cup {a.id}
    /\ ppc' = "recv"
    /\ UNCHANGED <<mailbox, cause, reply>>

\* The body of envelope a.id has returned res (<<>> for None or a cast, <<v>>
\* for Some(v)).  The call wrapper sends Some(v) on the reply channel:
\* `let _ = tx.send(res).await;` (failure ignored) or `tx.send(res).unwrap();`
\* (failure panics in the processor thread).
Finish(a, res) ==
    IF res # <<>> /\ ~ReceiverOpen(a.id) /\ backend = "thread"
    THEN Kill
    ELSE /\ ~SendWaits(a, res)
         /\ running' = running \ {a}
         /\ done' = done \cup {a.id}
         /\ reply' = IF res # <<>> /\ ReceiverOpen(a.id)
                     THEN [reply EXCEPT ![a.id] = Append(@, res[1])]
                     ELSE reply
         /\ ppc' = "recv"
         /\ UNCHANGED <<mailbox, cause>>

\* cast(|state| state.insert(..)): one write, no await in the body.
ExecAppend(a) ==
    /\ issued[a.id].op = "append"
    /\ state' = [state EXCEPT !.log = Append(@, <<issued[a.id].caller, issued[a.id].arg>>)]
    /\ Finish(a, <<>>)

\* Mutant of ExecIncrRead: the loop takes the suspended body for a finished
\* one and goes back to recv.
ExecIncrReadYield(a) ==
    /\ issued[a.id].op = "incr"
    /\ a.pc = "start"
    /\ running' = (running \ {a}) \cup {[a EXCEPT !.pc = "mid", !.tmp = state.n]}
    /\ ppc' = "recv"
    /\ UNCHANGED <<state, mailbox, cause, done, reply>>

\* call(|_, state| { *state += 1; Some(*state) }): the read of the counter.
ExecIncrRead(a) ==
    /\ issued[a.id].op = "incr"
    /\ a.pc = "start"
    /\ running' = (running \ {a}) \cup {[a EXCEPT !.pc = "mid", !.tmp = state.n]}
    /\ UNCHANGED <<state, mailbox, ppc, cause, done, reply>>

\* Mutant of ExecIncrWrite: the body returns the counter as it was before the
\* increment.
ExecIncrWriteOld(a) ==
    /\ issued[a.id].op = "incr"
    /\ a.pc = "mid"
    /\ state' = [state EXCEPT !.n = a.tmp + 1]
    /\ Finish(a, <<a.tmp>>)

\* ... and the write of counter + 1, returned as Some(counter).
ExecIncrWrite(a) ==
    /\ issued[a.id].op = "incr"
    /\ a.pc = "mid"
    /\ state' = [state EXCEPT !.n = a.tmp + 1]
    /\ Finish(a, <<a.tmp + 1>>)

\* call(|_, state| Some(state.get(..))): a snapshot of the state.
ExecRead(a) ==
    /\ issued[a.id].op = "read"
    /\ UNCHANGED state
    /\ Finish(a, <<state>>)

\* flush's body: Some(()) without touching the state.
ExecFlush(a) ==
    /\ issued[a.id].op = "flush"
    /\ UNCHANGED state
    /\ Finish(a, <<"unit">>)

\* A body that panics (as the unwrap()s in examples/tokio_runtime.rs can).
ExecPanic(a) ==
    /\ issued[a.id].op = "panic"
    /\ Kill

\* `(msg.func)(&mut state).await` / `f(&mut val)`: one step of a body.
Exec(a) ==
    /\ a \in running
    /\ \/ ExecAppend(a)
       \/ ExecIncrRead(a)
       \/ ExecIncrWrite(a)
       \/ ExecRead(a)
       \/ ExecFlush(a)
       \/ ExecPanic(a)
    /\ executed' = executed
    /\ UNCHANGED <<backend, abandoned, issued, ret, status, waitOn, last, pendingAtClose>>

\* A call body uses the clone of the reply sender it was handed: one send,
\* whose failure (receiver gone) the body ignores.
ExecOwnSend(a) ==
    /\ issued[a.id].op \in {"send_none", "send_some"}
    /\ a.pc = "start"
    /\ reply' = IF ReceiverOpen(a.id)
                THEN [reply EXCEPT ![a.id] = Append(@, "sent")]
                ELSE reply
    /\ running' = (running \ {a}) \cup {[a EXCEPT !.pc = "replied"]}
    /\ UNCHANGED <<state, mailbox, ppc, cause, done>>

\* ... and returns None: the wrapper sends nothing.
ExecSendNoneRet(a) ==
    /\ issued[a.id].op = "send_none"
    /\ a.pc = "replied"
    /\ UNCHANGED state
    /\ Finish(a, <<>>)

\* ... and returns Some(value): the wrapper sends as well.
ExecSendSomeRet(a) ==
    /\ issued[a.id].op = "send_some"
    /\ a.pc = "replied"
    /\ UNCHANGED state
    /\ Finish(a, <<"returned">>)

\* A call body that returns None without having sent.
ExecNone(a) ==
    /\ issued[a.id].op = "none"
    /\ UNCHANGED state
    /\ Finish(a, <<>>)

\* One step of a call body of ReplyOps.
ExecReply(a) ==
    /\ a \in running
    /\ \/ ExecOwnSend(a)
       \/ ExecSendNoneRet(a)
       \/ ExecSendSomeRet(a)
       \/ ExecNone(a)
    /\ executed' = executed
    /\ UNCHANGED <<backend, abandoned, issued, ret, status, waitOn, last, pendingAtClose>>

\* A body calls or flushes its own actor: the first half of call, issued by
\* the body (caller 0).
ExecSelfCallSend(a) ==
    /\ issued[a.id].op \in {"self_call", "self_flush"}
    /\ a.pc = "start"
    /\ IF issued[a.id].op = "self_call"
       THEN Enqueue(0, "call", "incr")
       ELSE Enqueue(0, "flush", "flush")
    /\ running' = (running \ {a}) \cup
                      {[a EXCEPT !.pc = "waiting", !.tmp = Len(issued) + 1]}
    /\ UNCHANGED <<state, ppc, cause, done>>

\* ... and the second half: the body goes on when rx.recv() yields the reply,
\* and panics in expect / unwrap when the inner envelope was dropped.
ExecSelfCallRecv(a) ==
    /\ issued[a.id].op \in {"self_call", "self_flush"}
    /\ a.pc = "waiting"
    /\ UNCHANGED <<state, issued>>
    /\ IF reply[a.tmp] # <<>>
       THEN /\ running' = running \ {a}
            /\ done' = done \cup {a.id}
            /\ reply' = [reply EXCEPT ![a.tmp] = Tail(@)]
            /\ ppc' = "recv"
            /\ UNCHANGED <<mailbox, cause>>
       ELSE /\ ~SenderAlive(a.tmp)
            /\ Kill

\* A body casts to its own actor: the envelope is queued and the body goes on.
ExecSelfCastSend(a) ==
    /\ issued[a.id].op = "self_cast"
    /\ a.pc = "start"
    /\ Enqueue(0, "cast", "append")
    /\ running' = (running \ {a}) \cup {[a EXCEPT !.pc = "sent"]}
    /\ UNCHANGED <<state, ppc, cause, done>>

ExecSelfCastRet(a) ==
    /\ issued[a.id].op = "self_cast"
    /\ a.pc = "sent"
    /\ UNCHANGED <<state, issued>>
    /\ Finish(a, <<>>)

\* One step of a body of SelfOps.
ExecSelf(a) ==
    /\ a \in running
    /\ \/ ExecSelfCallSend(a)
       \/ ExecSelfCallRecv(a)
       \/ ExecSelfCastSend(a)
       \/ ExecSelfCastRet(a)
    /\ executed' = executed
    /\ UNCHANGED <<backend, abandoned, ret, status, waitOn, last, pendingAtClose>>

\* ------------------------------------------------------------------- Next

Next ==
    \/ Start
    \/ Dequeue
    \/ Exit
    \/ \E a \in running : Exec(a)
    \/ \E c \in Clients, d \in Clients : Clone(c, d)
    \/ \E c \in Clients : Drop(c)
    \/ \E c \in Clients, op \in CastOps : Cast(c, op)
    \/ \E c \in Clients, op \in CallOps \ {"flush"} : Call(c, op)
    \/ \E c \in Clients : Flush(c)
    \/ \E c \in Clients : CallRecv(c)

Spec == Init /\ [][Next]_vars

\* The handles cast, call and are cloned and dropped.  The processor is
\* scheduled fairly (a spawned task of the runtime, a thread of the OS) and
\* every body goes on until it returns; the callers are under no obligation.
NextLive ==
    \/ Start
    \/ Dequeue
    \/ Exit
    \/ \E a \in running : Exec(a)
    \/ \E c \in Clients, d \in Clients : Clone(c, d)
    \/ \E c \in Clients : Drop(c)
    \/ \E c \in Clients, op \in CastOps : Cast(c, op)
    \/ \E c \in Clients : Call(c, "incr")
    \/ \E c \in Clients : CallRecv(c)

FairSpec ==
    /\ Init /\ [][NextLive]_vars
    /\ WF_vars(Start)
    /\ WF_vars(Dequeue)
    /\ WF_vars(Exit)
    /\ WF_vars(\E a \in running : Exec(a))

\* The handle returned by new issues calls only, with every kind of reply
\* behaviour, and may give up waiting.
NextReply ==
    \/ Start
    \/ Dequeue
    \/ Exit
    \/ \E a \in running : Exec(a)
    \/ \E a \in running : ExecReply(a)
    \/ \E c \in Clients : Drop(c)
    \/ \E c \in Clients, op \in {"incr"} \cup ReplyOps : Call(c, op)
    \/ \E c \in Clients : CallRecv(c)
    \/ \E c \in Clients : Abandon(c)

SpecReply == Init /\ [][NextReply]_vars

\* The handles, which stay alive, cast bodies that use the actor's own handle
\* and call the counter.
NextSelf ==
    \/ Start
    \/ Dequeue
    \/ \E a \in running : Exec(a)
    \/ \E a \in running : ExecSelf(a)
    \/ \E c \in Clients, d \in Clients : Clone(c, d)
    \/ \E c \in Clients, op \in SelfOps : Cast(c, op)
    \/ \E c \in Clients : Call(c, "incr")
    \/ \E c \in Clients : CallRecv(c)

SpecSelf == Init /\ [][NextSelf]_vars

\* ------------------------------------------------- what the history implies

\* The ids below `id` (or up to it) of the accepted envelopes with operation op.
OpsBefore(id, op) == {k \in 1..(id - 1) : issued[k].op = op}

OpsUpTo(id, op) == {k \in 1..id : issued[k].op = op}

\* The values appended by the first n accepted envelopes, in enqueue order.
RECURSIVE AppendsOf(_)
AppendsOf(n) ==
    IF n = 0 THEN <<>>
    ELSE IF issued[n].op = "append"
         THEN Append(AppendsOf(n - 1), <<issued[n].caller, issued[n].arg>>)
         ELSE AppendsOf(n - 1)

\* The entries of a list that were appended by client c.
RECURSIVE ByCaller(_, _)
ByCaller(log, c) ==
    IF log = <<>> THEN <<>>
    ELSE IF Head(log)[1] = c
         THEN <<Head(log)[2]>> \o ByCaller(Tail(log), c)
         ELSE ByCaller(Tail(log), c)

Returned == DOMAIN ret

\* The number of values written so far to the reply channel of call id: those
\* still buffered and the one its caller has received.
Written(id) == Len(reply[id]) + (IF id \in Returned THEN 1 ELSE 0)

\* The id of the envelope dequeued last.
LastExecuted == executed[Len(executed)]

\* ------------------------------------------------------------------ claims

\* C1 (mutual exclusion): at most one operation body is executing against the
\* state at any time; the loop is at recv only when no body is executing, and
\* every envelope dequeued before the latest one has run to completion (or the
\* processor is gone), also while the current body is suspended in its middle.
C1_MutualExclusion ==
    /\ Cardinality(running) <= 1
    /\ running # {} => ppc = "await"
    /\ \A i \in 1..(Len(executed) - 1) : executed[i] \in done

\* C1 witness: in the cooperative backend a body is suspended between its read
\* and its write while further envelopes wait in the mailbox.
C1_Witness ==
    /\ backend = "coop"
    /\ \E a \in running : a.pc = "mid"
    /\ Len(mailbox) >= 2

\* C2 (FIFO): the envelopes are executed in exactly the order in which they
\* were accepted, across all handles and across cast and call; a snapshot call
\* returns the list of all appends accepted before it, in enqueue order, so the
\* appends of its own handle show up there as 1, 2, .., N.
C2_Fifo ==
    /\ \A i \in 1..Len(executed) : executed[i] = i
    /\ \A id \in Returned :
          issued[id].op = "read" =>
             /\ ret[id].log = AppendsOf(id - 1)
             /\ LET mine == ByCaller(ret[id].log, issued[id].caller)
                IN  mine = [k \in 1..Len(mine) |-> k]
                    /\ Len(mine) = Cardinality({k \in OpsBefore(id, "append") :
                                          issued[k].caller = issued[id].caller})

\* C2 witness: three casts appending 1, 2, 3 from one handle and then a
\* snapshot call from that handle, which has returned [1, 2, 3].
C2_Witness ==
    \E id \in Returned :
       /\ issued[id].op = "read"
       /\ ByCaller(ret[id].log, issued[id].caller) = <<1, 2, 3>>

\* C3 (no lost updates): once every accepted call-based increment has
\* returned, the values returned are exactly 1..N, each once, and the counter
\* of the (single) state is N, whatever handle each increment came through.
C3_NoLostUpdates ==
    LET incrs == OpsUpTo(Len(issued), "incr") IN
    incrs \subseteq Returned =>
       /\ {ret[k] : k \in incrs} = 1..Cardinality(incrs)
       /\ Alive => state.n = Cardinality(incrs)

\* C3 witness: increments were called through two different handles, all have
\* returned, and the counter equals their number.
C3_Witness ==
    LET incrs == OpsUpTo(Len(issued), "incr") IN
    /\ Cardinality(incrs) >= 2
    /\ incrs \subseteq Returned
    /\ \E j \in incrs, k \in incrs : issued[j].caller # issued[k].caller
    /\ state.n = Cardinality(incrs)

\* C4 (call result correctness): the value a call returns is the value its own
\* operation produced: the k-th accepted increment returns k (1, then 2, then
\* 3 on a fresh counter), a snapshot returns the counter as left by the
\* increments before it, and flush returns ().
C4_CallResult ==
    \A id \in Returned :
       /\ issued[id].op = "incr" => ret[id] = Cardinality(OpsUpTo(id, "incr"))
       /\ issued[id].op = "read" => ret[id].n = Cardinality(OpsBefore(id, "incr"))
       /\ issued[id].op = "flush" => ret[id] = "unit"

\* C4 witness: three sequential increment calls on the fresh counter have
\* returned 1, 2 and 3.
C4_Witness ==
    /\ Len(issued) >= 3
    /\ \A k \in 1..3 : issued[k].op = "incr" /\ k \in Returned /\ ret[k] = k

\* C5 (flush barrier): when a flush has returned, every envelope enqueued
\* through the same handle before it has run to completion, and the values
\* appended by them are in the list (while the state exists).
C5_FlushBarrier ==
    \A id \in Returned :
       issued[id].api = "flush" =>
          \A k \in 1..(id - 1) :
             issued[k].caller = issued[id].caller =>
                /\ k \in done
                /\ (Alive /\ issued[k].op = "append") =>
                      \E i \in 1..Len(state.log) : state.log[i] = <<issued[k].caller, issued[k].arg>>

\* C5 witness: cast(op1), flush(), cast(op2), call(read) on one handle, with
\* the read returning a list that holds op1's value.
C5_Witness ==
    /\ Len(issued) = 4
    /\ issued[1].op = "append" /\ issued[2].api = "flush"
    /\ issued[3].op = "append" /\ issued[4].op = "read"
    /\ \A k \in 1..4 : issued[k].caller = 1
    /\ {2, 4} \subseteq Returned
    /\ ret[4].log[1] = <<1, 1>>

\* C6 (cast never waits): a ready caller can always cast, whatever the length
\* of the mailbox and whatever the processor is doing, and on a live actor the
\* cast is one step that puts the envelope at the tail and leaves the caller
\* ready and the processor untouched (the operation is not executed by it).
C6_CastNeverWaits ==
    \A c \in Clients, op \in CastOps :
       (status[c] = "ready" /\ Used < MaxOps) =>
          /\ ENABLED Cast(c, op)
          /\ Alive => ENABLED (/\ Cast(c, op)
                               /\ status'[c] = "ready"
                               /\ mailbox' = Append(mailbox, Len(issued) + 1)
                               /\ UNCHANGED <<ppc, running, executed, done, state>>)

\* C6 witness: a caller is back from cast and ready while its envelope is still
\* queued behind another one and the processor is busy with a body.
C6_Witness ==
    \E c \in Clients :
       /\ status[c] = "ready"
       /\ Len(mailbox) >= 2
       /\ issued[mailbox[Len(mailbox)]].caller = c
       /\ issued[mailbox[Len(mailbox)]].api = "cast"
       /\ ppc = "await"
       /\ \E a \in running : a.pc = "mid"

\* C7 as claimed: the envelopes queued when the last handle was dropped are
\* never executed.
C7_DiscardedAtClose ==
    \A id \in pendingAtClose : id \notin Range(executed)

\* C7 (amended): the envelopes queued when the last handle was dropped are
\* not discarded: unless a panicking body kills the processor, each of them is
\* still queued or has been dequeued for execution, and the loop ends only on
\* an empty mailbox, when all of them have run to completion.
C7_DrainedAtClose ==
    /\ cause # "panic" =>
          \A id \in pendingAtClose : id \in Range(mailbox) \/ id \in Range(executed)
    /\ (ppc = "terminated" /\ cause = "closed") =>
          /\ mailbox = <<>>
          /\ pendingAtClose \subseteq done

\* C7 witness: the loop has ended on the closed channel after executing
\* envelopes that were still queued when the last handle was dropped.
C7_Witness ==
    /\ ppc = "terminated"
    /\ cause = "closed"
    /\ Cardinality(pendingAtClose) >= 2
    /\ pendingAtClose \subseteq done

\* C8 as claimed: a call whose reply never arrives because the processor
\* stopped does not abort its caller with a panic.
C8_ActorGoneRecoverable ==
    \A c \in Clients : last[c] # "call_panic"

\* C9 as claimed: a cast on an actor whose processor has terminated is neither
\* silently dropped nor aborts the caller.
C9_EnqueueFailureReported ==
    \A c \in Clients : last[c] \notin {"lost", "cast_panic"}

\* C10 as claimed: after a body has panicked the processor loop is still
\* running (it ends only on the closed, empty channel).
C10_OperationFailureContained ==
    \A i \in 1..Len(executed) :
       issued[executed[i]].op = "panic" => (Alive \/ cause = "closed")

\* ------------------------------------------------------- the reply channel

\* C11: over the whole run at most one value is written to the reply channel
\* of each call, whatever operation the caller passes.
C11_AtMostOneReply == \A id \in DOMAIN reply : Written(id) <= 1

\* C12 as stated: every call whose operation was executed to completion with
\* the processor still running has a value in its reply channel, also when
\* the operation returned None.
C12_ReplyUnlessTerminated ==
    \A id \in done : issued[id].api = "call" => Written(id) >= 1

\* C12, amended: every call whose operation replies (it sends itself or returns
\* Some) and whose caller has not given up waiting has a value in its reply
\* channel once the operation was executed to completion with the processor
\* still running.
C12_ReplyingOpReplies ==
    \A id \in done :
        (/\ issued[id].api = "call"
         /\ issued[id].op # "none"
         /\ id \notin abandoned) => Written(id) >= 1

C12_Witness ==
    \E id \in done :
        /\ issued[id].op \in {"send_none", "incr"}
        /\ id \notin abandoned
        /\ id \in Returned
        /\ ppc # "terminated"

\* C17: in both backends the reply channel never holds more than one value
\* that has not been received yet.
C17_ReplyCapacityOne == \A id \in DOMAIN reply : Len(reply[id]) <= ReplyCap

\* C18: in the cooperative backend an abandoned call keeps its place in the
\* queue and is executed in FIFO position, its failed reply send neither kills
\* nor blocks the processor, and the loop goes on with the next envelopes.
C18_AbandonedCallHarmless ==
    backend = "coop" =>
        /\ \A id \in abandoned : id \in Range(mailbox) \/ id \in Range(executed)
        /\ \A i \in 1..Len(executed) : executed[i] = i
        /\ cause # "panic"
        /\ \A a \in running :
               a.id \in abandoned => ENABLED (Exec(a) \/ ExecReply(a))
        /\ \A id \in abandoned \cap done : ppc \in {"recv", "await", "terminated"}

C18_Witness ==
    /\ backend = "coop"
    /\ \E id \in abandoned \cap done :
           /\ Written(id) = 0
           /\ issued[id].op \in {"incr", "send_some"}
           /\ \E later \in done : later > id

\* C19: in the OS-thread backend the receiver of a call whose operation
\* returns Some without having sent is open while the envelope is queued and
\* executed, so the wrapper's send succeeds and delivers the value; only an
\* operation that has replied already can make the reply send kill the
\* processor thread.
C19_ReplySendSucceeds ==
    backend = "thread" =>
        /\ \A id \in DOMAIN reply :
               (issued[id].op = "incr" /\ SenderAlive(id)) => ReceiverOpen(id)
        /\ \A id \in done : issued[id].op = "incr" => Written(id) = 1
        /\ cause = "panic" => issued[LastExecuted].op = "send_some"

C19_Witness ==
    /\ backend = "thread"
    /\ \E id \in done \cap Returned : issued[id].op = "incr"
    /\ cause = "panic"
    /\ issued[LastExecuted].op = "send_some"

\* ------------------------------------------------- lifecycle and the state

\* C13: the processor is terminated only when every handle has been dropped,
\* and a terminated processor executes nothing.
C13_LifecycleSafety ==
    ppc = "terminated" => (Handles = {} /\ running = {})

\* C16: S has its initial value until the first envelope is dequeued; S
\* changes only in a step of the body of an envelope in execution; a step that
\* creates or drops a handle, enqueues an envelope or dequeues one leaves S
\* unchanged, and a step that creates or drops a handle or enqueues executes
\* nothing.
C16_StateFrame ==
    /\ state = [n |-> 0, log |-> <<>>] /\ executed = <<>> /\ running = {}
    /\ [][/\ state' # state => (ppc = "await" /\ \E a \in running : Exec(a))
          /\ (status' # status \/ issued' # issued) =>
                 UNCHANGED <<state, executed, running, done>>
          /\ executed' # executed => state' = state]_vars

C16_Witness ==
    /\ state.n > 0
    /\ state.log # <<>>
    /\ status[2] = "ready"
    /\ mailbox # <<>>

\* ----------------------------------------------------------------- liveness

\* C14: once every handle has been dropped the processor eventually leaves
\* the loop, with nothing left in the mailbox and, when it left on the closed
\* channel, with every envelope that was still queued executed.
C14_GracefulTermination ==
    (Handles = {}) ~>
        (/\ ppc = "terminated"
         /\ mailbox = <<>>
         /\ cause = "closed" => pendingAtClose \subseteq done)

C14_Witness ==
    /\ Handles = {}
    /\ ppc = "terminated"
    /\ cause = "closed"
    /\ pendingAtClose # {}
    /\ done = 1..Len(issued)

\* C15: every envelope accepted into the mailbox is eventually executed to
\* completion, unless the processor terminates first.
C15_NoCancellation ==
    \A id \in 1..MaxOps :
        (id \in Range(mailbox)) ~> (id \in done \/ ppc = "terminated")

C15_Witness ==
    /\ Alive
    /\ Cardinality(done) >= 3
    /\ \E id \in done : issued[id].caller = 2 /\ status[2] = "dropped"

\* ------------------------------------------------------------ self-deadlock

\* C20: a body that has issued call or flush on its own actor and waits for
\* the reply never completes: its inner envelope stays queued with no reply,
\* the processor stays in the executing state with no step of the body and no
\* dequeue possible, and no later envelope is executed; a body that casts to
\* its own actor can always go on.
C20_SelfCallDeadlocks ==
    /\ [](\A a \in running :
            /\ a.pc = "waiting" =>
                   /\ a.tmp \in Range(mailbox)
                   /\ reply[a.tmp] = <<>>
                   /\ ppc = "await"
                   /\ LastExecuted = a.id
                   /\ ~ENABLED (Exec(a) \/ ExecSelf(a))
                   /\ ~ENABLED Dequeue
            /\ issued[a.id].op = "self_cast" => ENABLED ExecSelf(a))
    /\ [][\A a \in running :
             a.pc = "waiting" =>
                 /\ a \in running'
                 /\ UNCHANGED <<executed, done, ppc>>]_vars

C20_Witness ==
    /\ \E a \in running :
           /\ a.pc = "waiting"
           /\ \E id \in Range(mailbox) : id > a.id /\ id # a.tmp
    /\ \E id \in done :
           /\ issued[id].op = "self_cast"
           /\ \E inner \in done : inner > id /\ issued[inner].caller = 0

====
